---- MODULE Spec2Model ----
(***************************************************************************)
(* EOS Energy Optimizer (Home Assistant integration): the update cycle of  *)
(* EOSApiClient (src/api.py), its callers (coordinator, services, buttons) *)
(* and the price / forecast normalisation it performs.                     *)
(*                                                                         *)
(* Units.  Time is counted in minutes since midnight of the day the        *)
(* sensors call "today".  Prices are integers in 1/1000 EUR per kWh        *)
(* (0.30 EUR/kWh is 300).  Every price the environment offers is a         *)
(* multiple of 12, so the mean of 1, 2, 3 or 4 of them is an integer and   *)
(* the integer quotient below is the quotient the code computes.           *)
(* A Python list index i is the sequence index i + 1.                      *)
(* An optional value (None or v) is the sequence <<>> or <<v>>.            *)
(***************************************************************************)
EXTENDS Integers, Sequences, FiniteSets, TLC

VARIABLES
    data,        \* EOSApiClient._data (EOSData)
    config,      \* EOSApiClient.config
    hass,        \* the host's state machine: the entities the client reads
    now,         \* dt_util.now(), minutes
    lock,        \* EOSApiClient._lock: its holder, <<>> when free
    waiters,     \* the lock's FIFO queue of waiting callers
    pc,          \* where each caller is
    request,     \* per caller, the optimization request it has posted
    completed,   \* history: some async_update / async_run_optimization call has ended
    last,        \* history: the run of async_run_optimization that returned last
    coord,       \* EOSDataUpdateCoordinator: refinement switch, timer, last EVCC mode, last SOC
    evcc,        \* per task, the EVCC battery-mode request it awaits the answer of
    savings,     \* EOSData.savings (SavingsTracker)
    ghost        \* history: last EVCC sync decision, accepted requests, cycles, restarts

vars == <<data, config, hass, now, lock, waiters, pc, request, completed, last,
          coord, evcc, savings, ghost>>

\* the coordinator's part of the state
coordinator_vars == <<coord, evcc, savings, ghost>>

----------------------------------------------------------------------------
(* Program constants *)

EOS_TGT_DURATION == 48
Slots15 == 192
DefaultPrice == 300
DefaultLoad == 400
DEFAULT_BATTERY_MAX_CHARGE == 5000
DEFAULT_FEED_IN_PRICE == 80

(* Bounds of the model *)

MaxShift == 1        \* price curves offered: 12 * (hour + shift), shift in 0..MaxShift
MaxStoredLen == 50   \* longest stored series handed to _build_optimization_request
MaxNow == 2          \* the clock of the cycle model runs 0..MaxNow minutes
MaxDuration == 1     \* override durations 1..MaxDuration minutes
NumServices == 1     \* service / button callers beside the coordinator

----------------------------------------------------------------------------
(* Helpers *)

None == <<>>
Some(v) == <<v>>

Max(a, b) == IF a >= b THEN a ELSE b

\* Python int(a / b) for b > 0: truncation toward zero
TruncDiv(a, b) == IF a >= 0 THEN a \div b ELSE -((-a) \div b)

\* [v] * n
Repeat(v, n) == [i \in 1..n |-> v]

\* s[:n]
Take(s, n) == IF Len(s) <= n THEN s ELSE SubSeq(s, 1, n)

RECURSIVE SumOver(_, _)
SumOver(S, f) ==
    IF S = {} THEN 0
    ELSE LET i == CHOOSE j \in S : TRUE IN f[i] + SumOver(S \ {i}, f)

MaxOf(S) == CHOOSE i \in S : \A j \in S : j <= i

\* dict.get(key) on a record that may lack the key
Get(rec, key) == IF key \in DOMAIN rec THEN rec[key] ELSE None

\* Python truthiness of an optional number: None and 0 are false
Truthy(o) == o # None /\ o[1] # 0

\* Python `a or b` on optional numbers
Or(a, b) == IF Truthy(a) THEN a ELSE b

----------------------------------------------------------------------------
(* Price normalisation: src/api.py 609-799 *)

\* _expand_hourly_to_15min: each of the first 48 prices four times, padded
\* with 0.30 to 192 entries, cut to 192
ExpandHourlyTo15min(hourly_prices) ==
    LET h == Take(hourly_prices, EOS_TGT_DURATION)
        expanded == [i \in 1..(4 * Len(h)) |-> h[((i - 1) \div 4) + 1]]
        padded == IF Len(expanded) < Slots15
                  THEN expanded \o Repeat(DefaultPrice, Slots15 - Len(expanded))
                  ELSE expanded
    IN Take(padded, Slots15)

\* the index of an entry that is written nowhere
NoIndex == 0 - 1

\* The loop body's index computation shared by the Tibber and ENTSO-E parsers.
\* diff is total_minutes_diff = (entry time - now) in minutes.
\* slot_15min = int(diff / 15); kept when -4 <= slot_15min < 192, at max(0, slot)
SlotIndex(diff) ==
    LET slot_15min == TruncDiv(diff, 15)
    IN IF -4 <= slot_15min /\ slot_15min < Slots15
       THEN Max(0, slot_15min)
       ELSE NoIndex

\* hours_diff = diff / 60; kept when -1 <= hours_diff < 48, at max(0, int(hours_diff))
HourIndex(diff) ==
    IF -60 <= diff /\ diff < 60 * EOS_TGT_DURATION
    THEN Max(0, TruncDiv(diff, 60))
    ELSE NoIndex

\* What both dual parsers build.  hidx[i], sidx[i] and values[i] are the
\* hour index, the slot index and the price of the i-th usable entry, in
\* input order.
\*   hourly: the mean of the prices collected per hour index, 0.30 elsewhere
\*   15 min: the last price written per slot index, 0.30 elsewhere; the
\*           expanded hourly series when no slot was written
DualFrom(hidx, sidx, values) ==
    LET n == Len(values)
        prices_hourly ==
            [k \in 1..EOS_TGT_DURATION |->
                LET S == {i \in 1..n : hidx[i] = k - 1}
                IN IF S = {} THEN DefaultPrice
                   ELSE SumOver(S, values) \div Cardinality(S)]
        prices_15min ==
            [s \in 1..Slots15 |->
                LET S == {i \in 1..n : sidx[i] = s - 1}
                IN IF S = {} THEN DefaultPrice ELSE values[MaxOf(S)]]
        noSlots == \A i \in 1..n : sidx[i] = NoIndex
    IN <<prices_hourly,
         IF noSlots THEN ExpandHourlyTo15min(prices_hourly) ELSE prices_15min>>

\* times[i] is the i-th usable entry's time; the index arrays are computed
\* once per entry, as the loop does
BuildDual(times, values, t) ==
    CHOOSE result \in
        {DualFrom(hidx, sidx, vals) :
            hidx \in {[i \in 1..Len(times) |-> HourIndex(times[i] - t)]},
            sidx \in {[i \in 1..Len(times) |-> SlotIndex(times[i] - t)]},
            vals \in {values}} : TRUE

\* An entry {from, price} of a Tibber "prices" list is used unless
\* `not from_str or price is None`, where price = get("price") or get("total")
TibberPrice(entry) == Or(Get(entry, "price"), Get(entry, "total"))
TibberUsable(entry) == Get(entry, "from") # None /\ TibberPrice(entry) # None

\* _parse_tibber_prices_dual
ParseTibberPricesDual(prices_data, t) ==
    LET used == SelectSeq(prices_data, TibberUsable)
        times == [i \in 1..Len(used) |-> used[i]["from"][1]]
        values == [i \in 1..Len(used) |-> TibberPrice(used[i])[1]]
    IN BuildDual(times, values, t)

\* ENTSO-E: a price above 1 EUR/kWh is taken to be EUR/MWh and divided by 1000
EntsoeValue(price) == IF price > 1000 THEN price \div 1000 ELSE price
EntsoePrice(entry) == Or(Get(entry, "price"), Get(entry, "value"))
EntsoeUsable(entry) == Get(entry, "time") # None /\ EntsoePrice(entry) # None

\* _parse_entsoe_prices_dual
ParseEntsoePricesDual(entries, t) ==
    LET used == SelectSeq(entries, EntsoeUsable)
        times == [i \in 1..Len(used) |-> used[i]["time"][1]]
        values == [i \in 1..Len(used) |-> EntsoeValue(EntsoePrice(used[i])[1])]
    IN BuildDual(times, values, t)

CurrentHour(t) == (t \div 60) % 24

\* float(price) if price is not None else 0.30
NordpoolValue(price) == IF price = None THEN DefaultPrice ELSE price[1]

\* _parse_nordpool_prices returning only the entries it was given (a mutant)
ParseNordpoolPricesShort(today, tomorrow, t) ==
    LET current_hour == CurrentHour(t)
        n == Max(0, Len(today) - current_hour)
    IN [k \in 1..n |-> NordpoolValue(today[current_hour + k])]

\* _parse_nordpool_prices: today[i] goes to index i - current_hour, then
\* tomorrow[i] to index 24 - current_hour + i (written later, so it wins)
ParseNordpoolPrices(today, tomorrow, t) ==
    LET current_hour == CurrentHour(t)
        hours_until_midnight == 24 - current_hour
    IN [k \in 1..EOS_TGT_DURATION |->
          LET idx == k - 1
              fromTomorrow == idx - hours_until_midnight   \* i of tomorrow[i]
              fromToday == idx + current_hour              \* i of today[i]
          IN IF 0 <= fromTomorrow /\ fromTomorrow < Len(tomorrow)
             THEN NordpoolValue(tomorrow[fromTomorrow + 1])
             ELSE IF fromToday < Len(today)
             THEN NordpoolValue(today[fromToday + 1])
             ELSE DefaultPrice]

\* The try block of _update_prices.  state is the price entity's state object; state.raises stands for attribute
\* values whose handling raises inside the try block, which leaves the
\* defaults set before it.
ParsePriceState(state, t) ==
    LET attrs == state.attrs
        defaults == <<Repeat(DefaultPrice, EOS_TGT_DURATION), Repeat(DefaultPrice, Slots15)>>
    IN IF state.raises THEN defaults
       ELSE IF "prices" \in DOMAIN attrs
       THEN IF attrs["prices"] # <<>>
            THEN ParseTibberPricesDual(attrs["prices"], t)
            ELSE defaults
       ELSE IF "prices_today" \in DOMAIN attrs \/ "raw_today" \in DOMAIN attrs
       THEN LET today == IF Get(attrs, "prices_today") # None
                         THEN attrs["prices_today"] ELSE Get(attrs, "raw_today")
                tomorrow == IF Get(attrs, "prices_tomorrow") # None
                            THEN attrs["prices_tomorrow"] ELSE Get(attrs, "raw_tomorrow")
                prices == ParseNordpoolPrices(today, tomorrow, t)
            IN <<prices, ExpandHourlyTo15min(prices)>>
       ELSE IF "data" \in DOMAIN attrs
       THEN ParseEntsoePricesDual(attrs["data"], t)
       ELSE IF state.state # None
       THEN <<Repeat(state.state[1], EOS_TGT_DURATION), Repeat(state.state[1], Slots15)>>
       ELSE defaults

\* _update_prices: the pair <<data.prices, data.prices_15min>> it stores
UpdatePrices(cfg, h, t) ==
    IF cfg.price_source = "fixed_24h"
    THEN <<Repeat(cfg.fixed_price, EOS_TGT_DURATION), Repeat(cfg.fixed_price, Slots15)>>
    ELSE IF ~cfg.price_entity \/ ~h.price.exists
    THEN <<Repeat(DefaultPrice, EOS_TGT_DURATION), Repeat(DefaultPrice, Slots15)>>
    ELSE ParsePriceState(h.price, t)

----------------------------------------------------------------------------
(* PV forecast, load and battery: src/api.py 363-528, 801-829 *)

\* The three forecast parsers add each period's power to the hour index
\* int(hours_diff) when 0 <= hours_diff < 48.
Accumulate(times, values, t) ==
    LET n == Len(times)
        idx == [i \in 1..n |->
                  LET diff == times[i] - t
                  IN IF 0 <= diff /\ diff < 60 * EOS_TGT_DURATION
                     THEN diff \div 60 ELSE NoIndex]
    IN [k \in 1..EOS_TGT_DURATION |-> SumOver({i \in 1..n : idx[i] = k - 1}, values)]

SolcastPower(period) == Or(Get(period, "pv_estimate"), Get(period, "pv_estimate50"))
SolcastUsable(period) == Get(period, "period_start") # None

\* _parse_solcast_forecast
ParseSolcastForecast(detailed, t) ==
    LET used == SelectSeq(detailed, SolcastUsable)
        times == [i \in 1..Len(used) |-> used[i]["period_start"][1]]
        values == [i \in 1..Len(used) |->
                     IF Truthy(SolcastPower(used[i])) THEN SolcastPower(used[i])[1] ELSE 0]
    IN Accumulate(times, values, t)

GenericStart(period) == IF Get(period, "period_start") # None
                        THEN Get(period, "period_start") ELSE Get(period, "datetime")
GenericPower(period) == Or(Get(period, "pv_estimate"), Get(period, "value"))
GenericUsable(period) == GenericStart(period) # None

\* _parse_generic_forecast
ParseGenericForecast(forecast_data, t) ==
    LET used == SelectSeq(forecast_data, GenericUsable)
        times == [i \in 1..Len(used) |-> GenericStart(used[i])[1]]
        values == [i \in 1..Len(used) |->
                     IF Truthy(GenericPower(used[i])) THEN GenericPower(used[i])[1] ELSE 0]
    IN Accumulate(times, values, t)

\* _parse_watt_hours_forecast: wh_data[i] is the pair <<timestamp, value>>
ParseWattHoursForecast(wh_data, t) ==
    Accumulate([i \in 1..Len(wh_data) |-> wh_data[i][1]],
               [i \in 1..Len(wh_data) |-> wh_data[i][2]], t)


\* _update_pv_forecast: the list it stores in data.pv_forecast
UpdatePvForecast(cfg, h, t) ==
    LET zeros == Repeat(0, EOS_TGT_DURATION)
        attrs == h.pv.attrs
        detailed == IF Get(attrs, "DetailedForecast") # None
                    THEN attrs["DetailedForecast"] ELSE Get(attrs, "detailedHourly")
    IN IF ~cfg.pv_forecast_entity \/ ~h.pv.exists THEN zeros
       ELSE IF h.pv.raises THEN zeros
       ELSE IF detailed # <<>> THEN ParseSolcastForecast(detailed, t)
       ELSE IF "forecast" \in DOMAIN attrs THEN ParseGenericForecast(attrs["forecast"], t)
       ELSE IF "watt_hours" \in DOMAIN attrs THEN ParseWattHoursForecast(attrs["watt_hours"], t)
       ELSE IF h.pv.state # None THEN [zeros EXCEPT ![1] = h.pv.state[1]]
       ELSE zeros

\* _update_load_data: the list it stores in data.load_profile
UpdateLoadData(cfg, h) ==
    IF cfg.load_sensor /\ h.load.exists /\ h.load.state # None
    THEN Repeat(h.load.state[1], EOS_TGT_DURATION)
    ELSE Repeat(DefaultLoad, EOS_TGT_DURATION)

\* _update_battery_soc: data.battery.soc afterwards
UpdateBatterySoc(soc, cfg, h) ==
    IF cfg.battery_soc_sensor /\ h.soc.exists /\ h.soc.state # None
    THEN h.soc.state[1]
    ELSE soc

\* _update_battery_state (charging curve not enabled): data.battery for a
\* state of charge
UpdateBatteryState(soc, cfg) ==
    [soc |-> soc,
     capacity_wh |-> cfg.battery_capacity_wh,
     min_soc |-> cfg.battery_min_soc,
     max_soc |-> cfg.battery_max_soc,
     usable_energy_wh |->
         IF soc > cfg.battery_min_soc
         THEN (cfg.battery_capacity_wh * (soc - cfg.battery_min_soc)) \div 100
         ELSE 0,
     dynamic_max_charge_power |-> cfg.battery_max_charge_power_w]

\* The five refresh calls that open async_update and async_run_optimization
UpdateSensors(d, cfg, h, t) ==
    CHOOSE updated \in
        {[d EXCEPT !.battery = UpdateBatteryState(UpdateBatterySoc(d.battery.soc, cfg, h), cfg),
                   !.load_profile = UpdateLoadData(cfg, h),
                   !.pv_forecast = UpdatePvForecast(cfg, h, t),
                   !.prices = both[1],
                   !.prices_15min = both[2]] : both \in {UpdatePrices(cfg, h, t)}} : TRUE

\* async_update, the body under the lock
AsyncUpdateBody(d, cfg, h, t) ==
    [UpdateSensors(d, cfg, h, t) EXCEPT !.optimization_state = "ok"]

----------------------------------------------------------------------------
(* The optimization request and its answer: src/api.py 831-986 *)

\* list.append(x) until the list has n entries
PadTo(s, n, x) == IF Len(s) < n THEN s \o Repeat(x, n - Len(s)) ELSE s

\* the request's arrays taken from the stored series as they are (a mutant)
EmsArraysUnpadded(d, cfg) ==
    [pv_prognose_wh |-> d.pv_forecast,
     strompreis_euro_pro_wh |-> d.prices,
     einspeiseverguetung_euro_pro_wh |-> Repeat(cfg.feed_in_price, EOS_TGT_DURATION),
     gesamtlast |-> d.load_profile]

\* The "ems" object of _build_optimization_request.  Prices leave as EUR/Wh
\* (p / 1000); counted in 1/1000000 EUR/Wh, that is the same integer.
EmsArrays(d, cfg) ==
    LET pv_forecast == IF d.pv_forecast # <<>> THEN Take(d.pv_forecast, EOS_TGT_DURATION)
                       ELSE Repeat(0, EOS_TGT_DURATION)
        prices == IF d.prices # <<>> THEN Take(d.prices, EOS_TGT_DURATION)
                  ELSE Repeat(DefaultPrice, EOS_TGT_DURATION)
        load_profile == IF d.load_profile # <<>> THEN Take(d.load_profile, EOS_TGT_DURATION)
                        ELSE Repeat(DefaultLoad, EOS_TGT_DURATION)
    IN [pv_prognose_wh |-> PadTo(pv_forecast, EOS_TGT_DURATION, 0),
        strompreis_euro_pro_wh |-> PadTo(prices, EOS_TGT_DURATION, prices[Len(prices)]),
        einspeiseverguetung_euro_pro_wh |-> Repeat(cfg.feed_in_price, EOS_TGT_DURATION),
        gesamtlast |-> PadTo(load_profile, EOS_TGT_DURATION, load_profile[Len(load_profile)])]

\* _build_optimization_request
BuildOptimizationRequest(d, cfg) ==
    [ems |-> EmsArrays(d, cfg),
     pv_akku |-> [capacity_wh |-> cfg.battery_capacity_wh,
                  max_charge_power_w |-> cfg.battery_max_charge_power_w,
                  initial_soc_percentage |-> d.battery.soc,
                  min_soc_percentage |-> cfg.battery_min_soc,
                  max_soc_percentage |-> cfg.battery_max_soc],
     inverter |-> [max_power_wh |-> cfg.max_pv_charge_rate]]

\* OptimizationResult()
EmptyResult == [ac_charge |-> <<>>, dc_charge |-> <<>>, discharge_allowed |-> <<>>]

\* _parse_optimization_response.  Charge fractions (0..1) are counted in
\* percent; a missing list defaults to 48 entries of 0, 1 and 1.
ParseOptimizationResponse(response) ==
    IF "error" \in DOMAIN response THEN EmptyResult
    ELSE [ac_charge |-> IF "ac_charge" \in DOMAIN response THEN response["ac_charge"]
                        ELSE Repeat(0, EOS_TGT_DURATION),
          dc_charge |-> IF "dc_charge" \in DOMAIN response THEN response["dc_charge"]
                        ELSE Repeat(100, EOS_TGT_DURATION),
          discharge_allowed |->
              IF "discharge_allowed" \in DOMAIN response
              THEN [i \in 1..Len(response["discharge_allowed"]) |->
                       response["discharge_allowed"][i] # 0]
              ELSE Repeat(TRUE, EOS_TGT_DURATION)]

\* the mode rule of _update_control_state
DerivedMode(ac_charge_demand, discharge_allowed) ==
    IF ac_charge_demand > 0 THEN "CHARGE_FROM_GRID"
    ELSE IF ~discharge_allowed THEN "AVOID_DISCHARGE"
    ELSE "DISCHARGE_ALLOWED"

\* _update_control_state that sets the mode whether or not an override is
\* active (a mutant)
UpdateControlStateAlways(d, cfg) ==
    LET opt == d.optimization
    IN IF opt.ac_charge = <<>> \/ opt.dc_charge = <<>> \/ opt.discharge_allowed = <<>>
       THEN d
       ELSE LET ac == (opt.ac_charge[1] * cfg.max_grid_charge_rate) \div 100
            IN [d EXCEPT !.control.ac_charge_demand = ac,
                         !.control.dc_charge_demand =
                             (opt.dc_charge[1] * cfg.max_pv_charge_rate) \div 100,
                         !.control.discharge_allowed = opt.discharge_allowed[1],
                         !.control.mode = DerivedMode(ac, opt.discharge_allowed[1])]

\* _update_control_state that keeps the mode AUTO while nothing is to be done
\* (a mutant)
UpdateControlStateAuto(d, cfg) ==
    LET opt == d.optimization
    IN IF opt.ac_charge = <<>> \/ opt.dc_charge = <<>> \/ opt.discharge_allowed = <<>>
       THEN d
       ELSE LET ac == (opt.ac_charge[1] * cfg.max_grid_charge_rate) \div 100
            IN [d EXCEPT !.control.ac_charge_demand = ac,
                         !.control.dc_charge_demand =
                             (opt.dc_charge[1] * cfg.max_pv_charge_rate) \div 100,
                         !.control.discharge_allowed = opt.discharge_allowed[1],
                         !.control.mode =
                             IF d.control.override_active THEN d.control.mode
                             ELSE IF ac = 0 /\ opt.discharge_allowed[1] THEN "AUTO"
                             ELSE DerivedMode(ac, opt.discharge_allowed[1])]

\* _update_control_state
UpdateControlState(d, cfg) ==
    LET opt == d.optimization
    IN IF opt.ac_charge = <<>> \/ opt.dc_charge = <<>> \/ opt.discharge_allowed = <<>>
       THEN d
       ELSE LET ac == (opt.ac_charge[1] * cfg.max_grid_charge_rate) \div 100
            IN [d EXCEPT !.control.ac_charge_demand = ac,
                         !.control.dc_charge_demand =
                             (opt.dc_charge[1] * cfg.max_pv_charge_rate) \div 100,
                         !.control.discharge_allowed = opt.discharge_allowed[1],
                         !.control.mode =
                             IF d.control.override_active THEN d.control.mode
                             ELSE DerivedMode(ac, opt.discharge_allowed[1])]

\* async_run_optimization from the answer on that leaves the status as it
\* was when the answer is good (a mutant)
HandleReplySticky(d, cfg, reply) ==
    IF reply.kind = "http" /\ reply.status = 200
    THEN UpdateControlState([d EXCEPT !.optimization = ParseOptimizationResponse(reply.body)], cfg)
    ELSE [d EXCEPT !.optimization_state = "error"]

\* async_run_optimization from the answer on: the block under session.post
\* and the three except clauses
HandleReply(d, cfg, reply) ==
    IF reply.kind = "http"
    THEN IF reply.status = 200
         THEN [UpdateControlState(
                  [d EXCEPT !.optimization = ParseOptimizationResponse(reply.body)], cfg)
               EXCEPT !.optimization_state = "ok"]
         ELSE [d EXCEPT !.optimization_state = "error"]
    ELSE IF reply.kind = "timeout" THEN [d EXCEPT !.optimization_state = "timeout"]
    ELSE IF reply.kind = "client_error" THEN [d EXCEPT !.optimization_state = "connection_error"]
    ELSE [d EXCEPT !.optimization_state = "error"]

----------------------------------------------------------------------------
(* The environment: configurations, entity states, server answers *)

DEFAULT_BATTERY_CAPACITY == 10000
DEFAULT_BATTERY_MIN_SOC == 5
DEFAULT_BATTERY_MAX_SOC == 95

Poll == 0                          \* the coordinator's periodic cycle
Services == 1..NumServices         \* service handlers and button presses
Callers == {Poll} \cup Services

EntityState(state, attrs) == [exists |-> TRUE, state |-> state, attrs |-> attrs, raises |-> FALSE]
NoEntity == [exists |-> FALSE, state |-> None, attrs |-> <<>>, raises |-> FALSE]
RaisingEntity == [exists |-> TRUE, state |-> None, attrs |-> <<>>, raises |-> TRUE]

\* The price of clock hour hr (0..23 today, 24..47 tomorrow) on curve c.
\* Curve 0 has price 0 in hour 0.
Curve(c, hr) == 12 * (hr + c)

\* Tibber: one {from, price} entry per clock hour, keyed by the hour's start
TibberHourly(c, hours) ==
    [prices |-> [i \in 1..hours |-> [from |-> Some(60 * (i - 1)),
                                     price |-> Some(Curve(c, i - 1))]]]

\* Tibber, quarter-hourly resolution: four entries per clock hour
TibberQuarterly(c, hours) ==
    [prices |-> [i \in 1..(4 * hours) |->
                    [from |-> Some(15 * (i - 1)),
                     price |-> Some(Curve(c, (i - 1) \div 4) + 12 * ((i - 1) % 4))]]]

\* Tibber list whose entries carry no usable timestamp
TibberGarbled == [prices |-> [i \in 1..3 |-> [price |-> Some(240)]]]

\* Nordpool: today's 24 prices by hour of day, tomorrow's once published
Nordpool(c, published) ==
    [prices_today |-> [i \in 1..24 |-> Some(Curve(c, i - 1))],
     prices_tomorrow |-> IF published THEN [i \in 1..24 |-> Some(Curve(c, 23 + i))] ELSE <<>>]

\* ENTSO-E: one {time, price} entry per clock hour, in EUR/kWh or in EUR/MWh
Entsoe(c, hours, per_mwh) ==
    [data |-> [i \in 1..hours |->
                  [time |-> Some(60 * (i - 1)),
                   price |-> Some(IF per_mwh THEN 1000 * Curve(c, i - 1) ELSE Curve(c, i - 1))]]]

Horizons == {24, 48}

PriceStates ==
    {EntityState(Some(240), TibberHourly(c, hours)) : c \in 0..MaxShift, hours \in Horizons}
    \cup {EntityState(Some(240), Entsoe(c, hours, FALSE)) : c \in 0..MaxShift, hours \in Horizons}
    \cup {EntityState(Some(240), Nordpool(c, pub)) : c \in 0..MaxShift, pub \in BOOLEAN}
    \cup {EntityState(Some(240), TibberQuarterly(1, 24)),
          EntityState(Some(240), Entsoe(1, 48, TRUE)),
          EntityState(Some(240), TibberGarbled),
          EntityState(Some(240), [prices |-> <<>>]),
          EntityState(Some(240), <<>>),
          EntityState(None, <<>>),
          RaisingEntity,
          NoEntity}

Solcast == [DetailedForecast |->
               [i \in 1..8 |-> [period_start |-> Some(60 * 8 + 30 * (i - 1)),
                                pv_estimate |-> Some(500 * i)]]]
GenericForecast == [forecast |->
               [i \in 1..4 |-> [datetime |-> Some(60 * (9 + i)), value |-> Some(300 * i)]]]
WattHours == [watt_hours |-> [i \in 1..4 |-> <<60 * (9 + i), 250 * i>>]]

PvStates == {EntityState(Some(1500), Solcast), EntityState(Some(1500), GenericForecast),
             EntityState(Some(1500), WattHours), EntityState(Some(1500), <<>>),
             EntityState(None, <<>>), RaisingEntity, NoEntity}

BaseConfig ==
    [price_source |-> "ha_sensor", price_entity |-> TRUE, fixed_price |-> DefaultPrice,
     pv_forecast_entity |-> TRUE, load_sensor |-> TRUE, battery_soc_sensor |-> TRUE,
     battery_capacity_wh |-> DEFAULT_BATTERY_CAPACITY,
     battery_min_soc |-> DEFAULT_BATTERY_MIN_SOC,
     battery_max_soc |-> DEFAULT_BATTERY_MAX_SOC,
     battery_max_charge_power_w |-> DEFAULT_BATTERY_MAX_CHARGE,
     max_grid_charge_rate |-> DEFAULT_BATTERY_MAX_CHARGE,
     max_pv_charge_rate |-> DEFAULT_BATTERY_MAX_CHARGE,
     feed_in_price |-> DEFAULT_FEED_IN_PRICE]

FixedConfig == [BaseConfig EXCEPT !.price_source = "fixed_24h", !.fixed_price = 240]
BareConfig == [BaseConfig EXCEPT !.price_entity = FALSE, !.pv_forecast_entity = FALSE,
                                 !.load_sensor = FALSE, !.battery_soc_sensor = FALSE]

BaseHass == [price |-> EntityState(Some(240), <<>>), pv |-> EntityState(Some(1500), <<>>),
             load |-> EntityState(Some(650), <<>>), soc |-> EntityState(Some(40), <<>>)]

\* EOSData() as EOSApiClient.__init__ leaves it
InitialData ==
    [control |-> [mode |-> "AUTO", ac_charge_demand |-> 0, dc_charge_demand |-> 0,
                  discharge_allowed |-> TRUE, override_active |-> FALSE,
                  override_end_time |-> None, override_power |-> 0],
     battery |-> [soc |-> 0, usable_energy_wh |-> 0, dynamic_max_charge_power |-> 0,
                  capacity_wh |-> 0, min_soc |-> 0, max_soc |-> 100],
     optimization |-> EmptyResult,
     pv_forecast |-> <<>>, prices |-> <<>>, prices_15min |-> <<>>, load_profile |-> <<>>,
     optimization_state |-> "unknown"]

\* What the optimizer's endpoint can do with a request
Schedule(ac, dis) == [ac_charge |-> <<ac, 0>>, dc_charge |-> <<100, 100>>,
                      discharge_allowed |-> <<dis, 1>>]
ValidReplies == {[kind |-> "http", status |-> 200, body |-> Schedule(sl[1], sl[2])] :
                    sl \in {<<50, 1>>, <<0, 0>>, <<0, 1>>}}
ErrorBodyReply == [kind |-> "http", status |-> 200, body |-> [error |-> "failed"]]
EmptyListsReply == [kind |-> "http", status |-> 200,
                    body |-> [ac_charge |-> <<>>, dc_charge |-> <<>>, discharge_allowed |-> <<>>]]
NoKeysReply == [kind |-> "http", status |-> 200, body |-> <<>>]
FailureReplies == {[kind |-> "http", status |-> 500, body |-> <<>>],
                   [kind |-> "timeout", status |-> 0, body |-> <<>>],
                   [kind |-> "client_error", status |-> 0, body |-> <<>>],
                   [kind |-> "exception", status |-> 0, body |-> <<>>]}
Replies == ValidReplies \cup {ErrorBodyReply} \cup FailureReplies

ErrorStates == {"error", "timeout", "connection_error"}

\* The record of the run that returned last: who called, what the server
\* answered, whether it and the run before it left an error status, and
\* whether the answer met an active override
NoReply == [kind |-> "none", status |-> 0, body |-> <<>>]
NoRun == [caller |-> Poll, reply |-> NoReply, failed |-> FALSE, prev_failed |-> FALSE,
          override |-> FALSE]

\* session.post(url, json=request_data): the request in flight and the
\* minute it left
Posted(request_data) == Some([json |-> request_data, sent |-> now])

IdleCallers == [c \in Callers |-> "idle"]
NoRequests == [c \in Callers |-> None]

----------------------------------------------------------------------------
(* The coordinator: savings tracking and the EVCC battery mode,            *)
(* src/custom_components/eos_energy_optimizer/coordinator.py               *)
(* Energy is counted in Wh, money in 1/1000000 EUR (Wh x 1/1000 EUR/kWh)   *)
(* and the weighted mean charge price in whole 1/1000 EUR/kWh.             *)

Abs(x) == IF x < 0 THEN 0 - x ELSE x

\* SavingsTracker()
InitialSavings ==
    [total_savings_eur |-> 0, total_grid_cost_eur |-> 0, total_charged_kwh |-> 0,
     total_discharged_kwh |-> 0, total_grid_import_kwh |-> 0,
     total_pv_charged_kwh |-> 0, total_grid_charged_kwh |-> 0,
     session_savings_eur |-> 0, session_charged_kwh |-> 0, session_discharged_kwh |-> 0,
     session_pv_charged_kwh |-> 0, session_grid_charged_kwh |-> 0,
     avg_charge_price |-> 0, avg_discharge_price |-> 0,
     today_savings_eur |-> 0, today_grid_cost_eur |-> 0, today_pv_charged_kwh |-> 0,
     today_grid_charged_kwh |-> 0, today_date |-> None]

\* _update_savings: the reset of today's values when the day changed
ResetToday(sv, t) ==
    IF sv.today_date # Some(t \div 1440)
    THEN [sv EXCEPT !.today_date = Some(t \div 1440), !.today_savings_eur = 0,
                    !.today_grid_cost_eur = 0, !.today_pv_charged_kwh = 0,
                    !.today_grid_charged_kwh = 0]
    ELSE sv

\* _update_savings: the battery was charged by energy Wh; the source is taken
\* from eos_mode, the mode of the control state at the time of the call
Charged(sv, energy, eos_mode, current_price, feed_in_price) ==
    LET grid == eos_mode = "CHARGE_FROM_GRID"
        charge_price == IF grid THEN current_price ELSE feed_in_price
        total == sv.total_charged_kwh + energy
        old_total == total - energy
    IN [sv EXCEPT
           !.total_grid_import_kwh = IF grid THEN @ + energy ELSE @,
           !.total_grid_cost_eur = IF grid THEN @ + energy * current_price ELSE @,
           !.today_grid_cost_eur = IF grid THEN @ + energy * current_price ELSE @,
           !.total_grid_charged_kwh = IF grid THEN @ + energy ELSE @,
           !.session_grid_charged_kwh = IF grid THEN @ + energy ELSE @,
           !.today_grid_charged_kwh = IF grid THEN @ + energy ELSE @,
           !.total_pv_charged_kwh = IF grid THEN @ ELSE @ + energy,
           !.session_pv_charged_kwh = IF grid THEN @ ELSE @ + energy,
           !.today_pv_charged_kwh = IF grid THEN @ ELSE @ + energy,
           !.total_charged_kwh = total,
           !.session_charged_kwh = @ + energy,
           !.avg_charge_price =
               IF old_total > 0
               THEN (@ * old_total + charge_price * energy) \div total
               ELSE charge_price]

\* _update_savings: the battery was discharged by discharged Wh
Discharged(sv, discharged, current_price) ==
    LET gain == (current_price - sv.avg_charge_price) * discharged
        counts == sv.avg_charge_price > 0
    IN [sv EXCEPT
           !.total_discharged_kwh = @ + discharged,
           !.session_discharged_kwh = @ + discharged,
           !.avg_discharge_price = current_price,
           !.total_savings_eur = IF counts THEN @ + gain ELSE @,
           !.session_savings_eur = IF counts THEN @ + gain ELSE @,
           !.today_savings_eur = IF counts THEN @ + gain ELSE @]

\* _update_savings: the tracker after the call
UpdateSavings(sv, co, d, cfg, t) ==
    IF d.prices = <<>> THEN sv
    ELSE IF co.last_soc = None THEN ResetToday(sv, t)
    ELSE LET energy == ((d.battery.soc - co.last_soc[1]) * cfg.battery_capacity_wh) \div 100
         IN IF Abs(energy) < 10 THEN ResetToday(sv, t)
            ELSE IF energy > 0
            THEN Charged(ResetToday(sv, t), energy, d.control.mode, d.prices[1],
                         cfg.feed_in_price)
            ELSE Discharged(ResetToday(sv, t), Abs(energy), d.prices[1])

\* _update_savings: _last_soc after the call
UpdateLastSoc(co, d) ==
    IF d.prices = <<>> THEN co ELSE [co EXCEPT !.last_soc = Some(d.battery.soc)]

\* EOSDataUpdateCoordinator.__init__
InitialCoordinator(evcc_enabled, refinement) ==
    [evcc_enabled |-> evcc_enabled, refinement_15min_enabled |-> refinement,
     unsub |-> FALSE, last_evcc_mode |-> None, last_soc |-> None]

EvccTasks == {"poll", "timer", "switch"}
NoEvccRequests == [k \in EvccTasks |-> None]
\* what is remembered of the run: sync is the last call of an EVCC sync (who
\* called it and the mode it selected, "none" when it returned without one),
\* restarts the number of times the config entry was set up again
NoSync == [by |-> "none", selected |-> "none"]
NoHistory == [sync |-> NoSync, restarts |-> 0]

CoordinatorInit(evcc_enabled, refinement) ==
    /\ coord = InitialCoordinator(evcc_enabled, refinement)
    /\ evcc = NoEvccRequests
    /\ savings = InitialSavings
    /\ ghost = NoHistory

MinOf(S) == CHOOSE i \in S : \A j \in S : i <= j

\* _set_evcc_mode_if_changed up to the await of async_set_evcc_battery_mode,
\* called by task k with the coordinator's fields being co: nothing is sent
\* when evcc_mode is _last_evcc_mode; otherwise the request is posted and k
\* waits for the answer.  sync is the record of the decision that led here,
\* g the history so far.
SetEvccModeIfChanged(k, co, g, evcc_mode, sync) ==
    /\ coord' = co
    /\ ghost' = [g EXCEPT !.sync = sync]
    /\ IF Some(evcc_mode) = co.last_evcc_mode
       THEN evcc' = evcc
       ELSE evcc' = [evcc EXCEPT ![k] = Some(evcc_mode)]

\* a sync that returned before it selected a mode
SyncReturns(k, co, g, sync) ==
    /\ coord' = co
    /\ evcc' = evcc
    /\ ghost' = [g EXCEPT !.sync = [sync EXCEPT !.selected = "none"]]

\* the hourly sync that goes on whatever the refinement switch says (a mutant)
HourlySyncSkipsNever(co) == FALSE

\* _sync_evcc_battery_mode: "Skip if 15-min refinement is handling this"
HourlySyncSkips(co) == co.refinement_15min_enabled

\* the hourly map that holds the battery in AUTO and STARTUP (a mutant)
HourlyEvccModeHolding(mode) ==
    IF mode = "CHARGE_FROM_GRID" THEN "charge"
    ELSE IF mode \in {"AVOID_DISCHARGE", "AUTO", "STARTUP"} THEN "hold"
    ELSE "normal"

\* _sync_evcc_battery_mode: the map from the EOS mode to the EVCC battery mode
HourlyEvccMode(mode) ==
    IF mode = "CHARGE_FROM_GRID" THEN "charge"
    ELSE IF mode = "AVOID_DISCHARGE" THEN "hold"
    ELSE "normal"

\* _sync_evcc_battery_mode, called at the end of the poll cycle
SyncEvccBatteryMode(co, g, d) ==
    LET sync == [NoSync EXCEPT !.by = "poll", !.selected = HourlyEvccMode(d.control.mode)]
    IN IF HourlySyncSkips(co)
       THEN SyncReturns("poll", co, g, sync)
       ELSE SetEvccModeIfChanged("poll", co, g, sync.selected, sync)

\* _sync_evcc_battery_mode_15min: the mode selected at clock time t, "none"
\* when the method returns for want of a slot price.
\* The AUTO branch compares with hour_min * 1.1 and hour_max * 0.9.
EvccSelection15min(d, t) ==
    LET current_hour == CurrentHour(t)
        current_15min_slot == current_hour * 4 + (t % 60) \div 15
        prices_15min == d.prices_15min
        prices_hourly == d.prices
    IN IF prices_15min = <<>> \/ current_15min_slot >= Len(prices_15min)
       THEN "none"
       ELSE LET current_15min_price == prices_15min[current_15min_slot + 1]
                hourly_avg == IF current_hour < Len(prices_hourly)
                              THEN prices_hourly[current_hour + 1]
                              ELSE current_15min_price
                hour_start_slot == current_hour * 4
                hour_prices == IF Len(prices_15min) >= hour_start_slot + 4
                               THEN {prices_15min[i] :
                                        i \in (hour_start_slot + 1)..(hour_start_slot + 4)}
                               ELSE {}
                hour_min == IF hour_prices # {} THEN MinOf(hour_prices)
                            ELSE current_15min_price
                hour_max == IF hour_prices # {} THEN MaxOf(hour_prices)
                            ELSE current_15min_price
                eos_mode == d.control.mode
                evcc_mode ==
                    IF eos_mode = "AVOID_DISCHARGE" THEN "hold"
                    ELSE IF eos_mode = "CHARGE_FROM_GRID"
                    THEN IF current_15min_price <= hourly_avg \/ current_15min_price = hour_min
                         THEN "charge" ELSE "hold"
                    ELSE IF eos_mode = "DISCHARGE_ALLOWED"
                    THEN IF current_15min_price >= hourly_avg \/ current_15min_price = hour_max
                         THEN "normal" ELSE "hold"
                    ELSE IF 10 * current_15min_price <= 11 * hour_min THEN "charge"
                    ELSE IF 10 * current_15min_price >= 9 * hour_max THEN "normal"
                    ELSE "hold"
            IN evcc_mode

\* _sync_evcc_battery_mode_15min, called by task k
SyncEvccBatteryMode15min(k, co, d, t) ==
    \E evcc_mode \in {EvccSelection15min(d, t)} :
       LET sync == [by |-> k, selected |-> evcc_mode]
       IN IF evcc_mode = "none"
          THEN SyncReturns(k, co, ghost, sync)
          ELSE SetEvccModeIfChanged(k, co, ghost, evcc_mode, sync)

\* _async_15min_update, called by task k (the timer or the switch)
Async15minUpdate(k, co, d, t) ==
    IF ~co.refinement_15min_enabled \/ ~co.evcc_enabled
    THEN SyncReturns(k, co, ghost, [NoSync EXCEPT !.by = k])
    ELSE SyncEvccBatteryMode15min(k, co, d, t)

\* _async_update_data once async_run_optimization has returned with the data
\* d, the tracker being sv, the coordinator's fields co and the history g:
\* _update_savings and, EVCC enabled, _sync_evcc_battery_mode up to the
\* request it may post
FinishCycle(sv, co, g, d, cfg, t) ==
    /\ savings' = UpdateSavings(sv, co, d, cfg, t)
    /\ IF co.evcc_enabled
       THEN SyncEvccBatteryMode(UpdateLastSoc(co, d), g, d)
       ELSE /\ coord' = UpdateLastSoc(co, d)
            /\ evcc' = evcc
            /\ ghost' = g

\* _async_update_data from the call to the await in _set_evcc_mode_if_changed
\* or, nothing being posted, to the return, started with the data d0 and
\* answered by the optimization server with one of replies
CycleFrom(d0, sv, co, g, replies) ==
    \E u \in {UpdateSensors(AsyncUpdateBody(d0, config, hass, now), config, hass, now)} :
    \E reply \in replies :
    \E d \in {HandleReply(u, config, reply)} :
       /\ data' = d
       /\ FinishCycle(sv, co, g, d, config, now)

----------------------------------------------------------------------------
(* SpecSeries: the sensor refresh and one optimization run after another,  *)
(* one caller, over every price source and a day of clock times            *)

SeriesTimes == {60 * h + m : h \in {0, 1, 10, 23}, m \in {0, 30}}

SeriesInit ==
    /\ data = InitialData
    /\ \/ config = BaseConfig /\ \E ps \in PriceStates : hass = [BaseHass EXCEPT !.price = ps]
       \/ config = BaseConfig /\ \E pv \in PvStates : hass = [BaseHass EXCEPT !.pv = pv]
       \/ config \in {FixedConfig, BareConfig} /\ hass = BaseHass
       \/ config = BaseConfig /\ hass = [BaseHass EXCEPT !.load = EntityState(None, <<>>),
                                                         !.soc = NoEntity]
    /\ now \in SeriesTimes
    /\ lock = None /\ waiters = <<>> /\ pc = IdleCallers /\ request = NoRequests
    /\ completed = FALSE /\ last = NoRun
    /\ CoordinatorInit(FALSE, FALSE)

\* async_update, from call to return
SeriesAsyncUpdate ==
    /\ UNCHANGED coordinator_vars
    /\ data' = AsyncUpdateBody(data, config, hass, now)
    /\ completed' = TRUE
    /\ UNCHANGED <<config, hass, now, lock, waiters, pc, request, last>>

\* async_run_optimization, from call to return, the server answering reply
SeriesRunOptimization ==
    /\ UNCHANGED coordinator_vars
    /\ \E d \in {UpdateSensors(data, config, hass, now)} :
       /\ request' = [request EXCEPT ![Poll] = Posted(BuildOptimizationRequest(d, config))]
       /\ \E reply \in {[kind |-> "http", status |-> 200, body |-> Schedule(50, 1)],
                         [kind |-> "timeout", status |-> 0, body |-> <<>>],
                         EmptyListsReply, NoKeysReply} :
              data' = HandleReply(d, config, reply)
       /\ completed' = TRUE
       /\ UNCHANGED <<config, hass, now, lock, waiters, pc, last>>

SeriesNext == SeriesAsyncUpdate \/ SeriesRunOptimization

SpecSeries == SeriesInit /\ [][SeriesNext]_vars

----------------------------------------------------------------------------
(* SpecRequest: _build_optimization_request over stored series of any length *)

StoredLens == {0, 1, EOS_TGT_DURATION - 1, EOS_TGT_DURATION, EOS_TGT_DURATION + 1, MaxStoredLen}
Stored(n, first) == [i \in 1..n |-> first + 12 * i]

RequestInit ==
    /\ \E a \in StoredLens, b \in StoredLens, c \in StoredLens :
          data = [InitialData EXCEPT !.pv_forecast = Stored(a, 0), !.prices = Stored(b, 120),
                                     !.load_profile = Stored(c, 400)]
    /\ config = BaseConfig /\ hass = BaseHass /\ now = 0
    /\ lock = None /\ waiters = <<>> /\ pc = IdleCallers /\ request = NoRequests
    /\ completed = FALSE /\ last = NoRun
    /\ CoordinatorInit(FALSE, FALSE)

BuildRequest ==
    /\ UNCHANGED coordinator_vars
    /\ request[Poll] = None
    /\ request' = [request EXCEPT ![Poll] = Posted(BuildOptimizationRequest(data, config))]
    /\ UNCHANGED <<data, config, hass, now, lock, waiters, pc, completed, last>>

SpecRequest == RequestInit /\ [][BuildRequest]_vars

----------------------------------------------------------------------------
(* Spec: the coordinator's poll cycle, the services and buttons, the manual *)
(* commands and the clock, interleaved at the points where the code awaits  *)

\* the commands offered: set_mode to AUTO or AVOID_DISCHARGE, set_override
\* to CHARGE_FROM_GRID with a charge power or to AVOID_DISCHARGE without
ManualModes == {"AUTO", "AVOID_DISCHARGE"}
Overrides == {<<"CHARGE_FROM_GRID", 1000>>, <<"AVOID_DISCHARGE", 0>>}

\* `async with self._lock` enters at once when the lock is not held and
\* nobody is queued for it
LockFreeAlways(l, w) == TRUE
LockFree(l, w) == l = None /\ w = <<>>

\* async_run_optimization from the lock on to the await of session.post
PostRequest(t, d, w) ==
    \E u \in {UpdateSensors(d, config, hass, now)} :
       /\ data' = u
       /\ request' = [request EXCEPT ![t] = Posted(BuildOptimizationRequest(u, config))]
       /\ lock' = Some(t)
       /\ waiters' = w
       /\ pc' = [pc EXCEPT ![t] = "posted"]

\* a call of async_run_optimization by caller t, the data being d, the lock l
\* and its queue w
EnterRun(t, d, l, w) ==
    IF LockFree(l, w)
    THEN PostRequest(t, d, w)
    ELSE /\ data' = d
         /\ waiters' = Append(w, t)
         /\ pc' = [pc EXCEPT ![t] = "wait_run"]
         /\ lock' = l
         /\ request' = request

Init ==
    /\ data = InitialData
    /\ config = FixedConfig
    /\ hass = BaseHass
    /\ now = 0
    /\ lock = None /\ waiters = <<>> /\ pc = IdleCallers /\ request = NoRequests
    /\ completed = FALSE /\ last = NoRun
    /\ CoordinatorInit(FALSE, FALSE)

\* _async_update_data: async_update, then async_run_optimization; the cycle
\* before it has returned (its EVCC request, if any, is answered)
PollStart ==
    /\ UNCHANGED coordinator_vars
    /\ pc[Poll] = "idle" /\ evcc["poll"] = None
    /\ IF LockFree(lock, waiters)
       THEN /\ EnterRun(Poll, AsyncUpdateBody(data, config, hass, now), None, <<>>)
            /\ completed' = TRUE
       ELSE /\ waiters' = Append(waiters, Poll)
            /\ pc' = [pc EXCEPT ![Poll] = "wait_update"]
            /\ UNCHANGED <<data, request, lock, completed>>
    /\ UNCHANGED <<config, hass, now, last>>

\* the poll cycle gets the lock it queued for in async_update
PollResumeUpdate ==
    /\ UNCHANGED coordinator_vars
    /\ pc[Poll] = "wait_update"
    /\ lock = None /\ waiters # <<>> /\ Head(waiters) = Poll
    /\ EnterRun(Poll, AsyncUpdateBody(data, config, hass, now), None, Tail(waiters))
    /\ completed' = TRUE
    /\ UNCHANGED <<config, hass, now, last>>

\* caller t gets the lock it queued for in async_run_optimization
ResumeRun(t) ==
    /\ UNCHANGED coordinator_vars
    /\ pc[t] = "wait_run"
    /\ lock = None /\ waiters # <<>> /\ Head(waiters) = t
    /\ PostRequest(t, data, Tail(waiters))
    /\ UNCHANGED <<config, hass, now, completed, last>>

\* the answer to caller t's request arrives and async_run_optimization
\* returns; the poll cycle goes on to its end
Reply(t, reply) ==
    /\ pc[t] = "posted"
    /\ data' = HandleReply(data, config, reply)
    /\ IF t = Poll
       THEN FinishCycle(savings, coord, ghost, data', config, now)
       ELSE UNCHANGED coordinator_vars
    /\ lock' = None
    /\ pc' = [pc EXCEPT ![t] = "idle"]
    /\ request' = [request EXCEPT ![t] = None]
    /\ completed' = TRUE
    /\ last' = [caller |-> t, reply |-> reply,
                failed |-> data'.optimization_state \in ErrorStates,
                prev_failed |-> last.failed,
                override |-> data.control.override_active]
    /\ UNCHANGED <<config, hass, now, waiters>>

\* the refresh_optimization service and the refresh button
SvcRefresh(t) ==
    /\ UNCHANGED coordinator_vars
    /\ pc[t] = "idle"
    /\ EnterRun(t, data, lock, waiters)
    /\ UNCHANGED <<config, hass, now, completed, last>>

\* async_clear_override (service and button)
SvcClearOverride(t) ==
    /\ UNCHANGED coordinator_vars
    /\ pc[t] = "idle"
    /\ EnterRun(t, [data EXCEPT !.control.override_active = FALSE,
                                !.control.override_end_time = None,
                                !.control.override_power = 0], lock, waiters)
    /\ UNCHANGED <<config, hass, now, completed, last>>

\* async_set_override
SetOverride(mode, duration_minutes, charge_power) ==
    /\ UNCHANGED coordinator_vars
    /\ data' = [data EXCEPT
                   !.control.mode = mode,
                   !.control.override_active = TRUE,
                   !.control.override_end_time = Some(now + duration_minutes),
                   !.control.override_power = charge_power,
                   !.control.ac_charge_demand =
                       IF mode = "CHARGE_FROM_GRID" /\ charge_power > 0
                       THEN charge_power ELSE @]
    /\ UNCHANGED <<config, hass, now, lock, waiters, pc, request, completed, last>>

\* async_set_mode
SetMode(mode) ==
    /\ UNCHANGED coordinator_vars
    /\ data' = [data EXCEPT !.control.mode = mode]
    /\ UNCHANGED <<config, hass, now, lock, waiters, pc, request, completed, last>>

\* a minute passes
Tick ==
    /\ UNCHANGED coordinator_vars
    /\ now < MaxNow
    /\ now' = now + 1
    /\ UNCHANGED <<data, config, hass, lock, waiters, pc, request, completed, last>>

Next ==
    \/ PollStart
    \/ PollResumeUpdate
    \/ \E t \in Callers : ResumeRun(t)
    \/ \E t \in Callers, reply \in Replies : Reply(t, reply)
    \/ \E t \in Services : SvcRefresh(t)
    \/ \E t \in Services : SvcClearOverride(t)
    \/ \E o \in Overrides, d \in 1..MaxDuration : SetOverride(o[1], d, o[2])
    \/ \E mode \in ManualModes : SetMode(mode)
    \/ Tick

Spec == Init /\ [][Next]_vars

----------------------------------------------------------------------------
(* Claims about the stored series and the request *)

\* C1: after any completed call of async_update or async_run_optimization,
\* whatever the price source and also when parsing raised, prices has 48
\* entries, prices_15min 192, pv_forecast 48 and load_profile 48.
C1_SeriesHaveHorizonLengths ==
    completed =>
        /\ Len(data.prices) = 48
        /\ Len(data.prices_15min) = 192
        /\ Len(data.pv_forecast) = 48
        /\ Len(data.load_profile) = 48

\* a run of async_run_optimization that ended in a timeout, on a Nordpool
\* price entity whose tomorrow list is not published yet
C1_Witness ==
    /\ completed
    /\ data.optimization_state = "timeout"
    /\ "prices_today" \in DOMAIN hass.price.attrs
    /\ hass.price.attrs["prices_tomorrow"] = <<>>
    /\ Len(data.prices) = 48

\* C2: every request built by _build_optimization_request carries four ems
\* arrays of exactly 48 entries, whatever the lengths of the stored
\* pv_forecast, prices and load_profile.
C2_RequestArraysHave48Entries ==
    request[Poll] # None =>
        LET ems == request[Poll][1].json.ems
        IN /\ Len(ems.pv_prognose_wh) = 48
           /\ Len(ems.strompreis_euro_pro_wh) = 48
           /\ Len(ems.einspeiseverguetung_euro_pro_wh) = 48
           /\ Len(ems.gesamtlast) = 48

\* a request built from an empty pv_forecast, a one-entry load_profile and
\* prices longer than 48
C2_Witness ==
    /\ request[Poll] # None
    /\ Len(data.pv_forecast) = 0
    /\ Len(data.load_profile) = 1
    /\ Len(data.prices) > 48
    /\ request[Poll][1].json.ems.gesamtlast[48] = data.load_profile[1]

\* The hourly entries of a price entity in Tibber or ENTSO-E form, as
\* <<start of the clock hour, price in EUR/kWh>>
HourlyInput(state) ==
    IF "prices" \in DOMAIN state.attrs
    THEN [i \in 1..Len(state.attrs["prices"]) |->
             <<state.attrs["prices"][i]["from"][1], state.attrs["prices"][i]["price"][1]>>]
    ELSE [i \in 1..Len(state.attrs["data"]) |->
             <<state.attrs["data"][i]["time"][1], state.attrs["data"][i]["price"][1]>>]

IsHourlyInput(state) ==
    /\ state.exists /\ ~state.raises
    /\ \/ "prices" \in DOMAIN state.attrs /\ state.attrs["prices"] # <<>>
       \/ "data" \in DOMAIN state.attrs
    /\ \A i \in 1..Len(HourlyInput(state)) :
          /\ HourlyInput(state)[i][1] = 60 * (i - 1)
          /\ HourlyInput(state)[i][2] <= 1000

\* C6: for Tibber-style and ENTSO-E-style input with one entry per clock hour,
\* for every k in 0..47 for which the input has an entry, prices[k] is the
\* price of the clock hour that contains now + k hours (so prices[0] is the
\* price of the hour in progress, and no two input hours share an index).
C6_HourlyPricesAlignedToNow ==
    (completed /\ IsHourlyInput(hass.price)) =>
        \A k \in 0..47 :
            \A i \in 1..Len(HourlyInput(hass.price)) :
                HourlyInput(hass.price)[i][1] = 60 * ((now + 60 * k) \div 60)
                    => data.prices[k + 1] = HourlyInput(hass.price)[i][2]

IsNordpoolInput(state) == state.exists /\ ~state.raises /\ "prices_today" \in DOMAIN state.attrs

\* C7, first half: Nordpool entry k is today[h + k] when h + k < 24,
\* tomorrow[h + k - 24] when that exists, and 0.30 where there is no input.
C7_NordpoolByHourOfDay ==
    (completed /\ IsNordpoolInput(hass.price)) =>
        LET today == hass.price.attrs["prices_today"]
            tomorrow == hass.price.attrs["prices_tomorrow"]
            h == CurrentHour(now)
        IN \A k \in 0..47 :
              data.prices[k + 1] =
                  IF h + k < 24 THEN today[h + k + 1][1]
                  ELSE IF h + k - 24 < Len(tomorrow) THEN tomorrow[h + k - 24 + 1][1]
                  ELSE DefaultPrice

\* The curve of a Nordpool entity as a Tibber "prices" list: one entry per
\* clock hour, keyed by the hour's start
TibberFormOf(attrs) ==
    [i \in 1..(24 + Len(attrs["prices_tomorrow"])) |->
        [from |-> Some(60 * (i - 1)),
         price |-> IF i <= 24 THEN attrs["prices_today"][i]
                   ELSE attrs["prices_tomorrow"][i - 24]]]

\* C7: _parse_nordpool_prices returns today[h + k] / tomorrow[h + k - 24] /
\* 0.30 at index k, and the same price curve delivered in Nordpool form and
\* in Tibber form yields the same hourly series.
C7_NordpoolEqualsTibber ==
    /\ C7_NordpoolByHourOfDay
    /\ (completed /\ IsNordpoolInput(hass.price)) =>
          data.prices = ParseTibberPricesDual(TibberFormOf(hass.price.attrs), now)[1]

----------------------------------------------------------------------------
(* FairSpec: the callers of the update cycle alone (poll cycle, services,   *)
(* buttons), under the scheduling the event loop and the HTTP client give:  *)
(* a posted request is answered or times out (ClientTimeout, 180 s), and a  *)
(* caller woken for the lock runs                                           *)

LockReplies == {[kind |-> "http", status |-> 200, body |-> Schedule(50, 1)],
                [kind |-> "http", status |-> 500, body |-> <<>>],
                [kind |-> "timeout", status |-> 0, body |-> <<>>]}

LockNext ==
    \/ PollStart
    \/ PollResumeUpdate
    \/ \E t \in Callers : ResumeRun(t)
    \/ \E t \in Callers, reply \in LockReplies : Reply(t, reply)
    \/ \E t \in Services : SvcRefresh(t)
    \/ \E t \in Services : SvcClearOverride(t)

Fairness ==
    /\ \A t \in Callers : WF_vars(\E reply \in LockReplies : Reply(t, reply))
    /\ \A t \in Callers : WF_vars(ResumeRun(t))
    /\ WF_vars(PollResumeUpdate)

FairSpec == Init /\ [][LockNext]_vars /\ Fairness

----------------------------------------------------------------------------
(* Claims about the update cycle *)

InBody == {t \in Callers : pc[t] = "posted"}
IsWaiting(t) == pc[t] \in {"wait_update", "wait_run"}

\* caller t's async_run_optimization returns in this step
Returns(t) == pc[t] = "posted" /\ pc'[t] = "idle"

\* the body of async_update runs in this step
UpdateBodyRuns == pc[Poll] \in {"idle", "wait_update"} /\ pc'[Poll] \in {"posted", "wait_run"}

\* C3: one lock serializes the update cycle: never two bodies of async_update
\* and/or async_run_optimization in progress together, whoever starts them;
\* the lock is held exactly while a body is in progress, so it is released
\* when the body ends, in success and in failure; and no caller waits for it
\* forever.
C3_LockSerializesCycle ==
    /\ [](/\ Cardinality(InBody) <= 1
          /\ \A t \in Callers : pc[t] = "posted" <=> lock = Some(t)
          /\ \A t \in Callers : IsWaiting(t) <=> \E i \in 1..Len(waiters) : waiters[i] = t)
    /\ [][UpdateBodyRuns => InBody = {}]_vars
    /\ [][\A t \in Callers : Returns(t) => lock' = None]_vars
    /\ \A t \in Callers : IsWaiting(t) ~> ~IsWaiting(t)

\* the poll cycle's run has failed and released the lock; a service runs
\* under it now and the next poll cycle waits for it
C3_Witness ==
    /\ last.failed
    /\ last.caller = Poll
    /\ pc[Poll] = "wait_update"
    /\ \E t \in Services : pc[t] = "posted" /\ lock = Some(t)

\* a run that ended in an error: the answers listed in C4
Errored(reply) ==
    \/ reply.kind # "http"
    \/ reply.status # 200
    \/ "error" \in DOMAIN reply.body

\* C4: when async_run_optimization returns after a non-200 response, a
\* timeout, a connection error, any other exception or a response body with
\* an "error" field, optimization_state is not "ok" but "error", "timeout" or
\* "connection_error".
C4_ErroredRunIsSurfaced ==
    [][\A t \in Callers :
          (Returns(t) /\ Errored(last'.reply)) => data'.optimization_state \in ErrorStates]_vars

\* the control state the first slot of a schedule stands for
FirstSlotDemand(body) == (body["ac_charge"][1] * config.max_grid_charge_rate) \div 100
FirstSlotDischarge(body) == body["discharge_allowed"][1] # 0

\* C5: no error status is absorbing: after a run that left "error", "timeout"
\* or "connection_error", the next cycle sends a new request, and when the
\* server answers it with 200 and a valid schedule, optimization_state
\* becomes "ok" and the control state is derived from that answer.
C5_ErrorStatusNotAbsorbing ==
    [][\A t \in Callers :
          /\ (last.failed /\ pc[t] # "posted" /\ pc'[t] = "posted") =>
                /\ request'[t] # None
                /\ request'[t][1].json = BuildOptimizationRequest(data', config)
          /\ (last.failed /\ Returns(t) /\ last'.reply \in ValidReplies) =>
                /\ data'.optimization_state = "ok"
                /\ data'.optimization = ParseOptimizationResponse(last'.reply.body)
                /\ data'.control.ac_charge_demand = FirstSlotDemand(last'.reply.body)
                /\ data'.control.discharge_allowed = FirstSlotDischarge(last'.reply.body)]_vars

\* the poll cycle that followed a failed run got a schedule and left "ok"
C5_Witness ==
    /\ last.prev_failed
    /\ last.caller = Poll
    /\ last.reply \in ValidReplies
    /\ ~last.failed
    /\ data.optimization_state = "ok"
    /\ data.control.ac_charge_demand = FirstSlotDemand(last.reply.body)

\* HTTP 200 with non-empty ac_charge, dc_charge and discharge_allowed
Successful(reply) ==
    /\ reply.kind = "http" /\ reply.status = 200
    /\ "error" \notin DOMAIN reply.body
    /\ \A k \in {"ac_charge", "dc_charge", "discharge_allowed"} :
          k \in DOMAIN reply.body /\ reply.body[k] # <<>>

\* C8: after a successful optimization with no override active,
\* ac_charge_demand = ac_charge[0] x max grid charge rate, discharge_allowed =
\* discharge_allowed[0], control.mode is CHARGE_FROM_GRID if ac_charge_demand
\* > 0, else AVOID_DISCHARGE if discharge is not allowed, else
\* DISCHARGE_ALLOWED, and so never AUTO or STARTUP.
C8_DirectiveFromFirstSlot ==
    [][\A t \in Callers :
          (Returns(t) /\ Successful(last'.reply) /\ ~data.control.override_active) =>
              /\ data'.control.ac_charge_demand = FirstSlotDemand(last'.reply.body)
              /\ data'.control.discharge_allowed = FirstSlotDischarge(last'.reply.body)
              /\ data'.control.mode =
                    IF FirstSlotDemand(last'.reply.body) > 0 THEN "CHARGE_FROM_GRID"
                    ELSE IF ~FirstSlotDischarge(last'.reply.body) THEN "AVOID_DISCHARGE"
                    ELSE "DISCHARGE_ALLOWED"
              /\ data'.control.mode \notin {"AUTO", "STARTUP"}]_vars

\* a schedule that forbids discharge was answered with no override active
C8_Witness ==
    /\ last.reply \in ValidReplies
    /\ last.reply.body = Schedule(0, 0)
    /\ ~last.override
    /\ pc[last.caller] = "idle"
    /\ data.control.mode = "AVOID_DISCHARGE"
    /\ ~data.control.discharge_allowed
    /\ data.control.ac_charge_demand = 0

\* C9: while an override is active, no step of an optimization run (poll
\* cycle, refresh_optimization) changes control.mode, so the mode stays the
\* one given to async_set_override.
C9_OverrideKeepsMode ==
    [][(data.control.override_active /\ data'.control.override_active /\ pc' # pc) =>
          data'.control.mode = data.control.mode]_vars

\* a schedule asking for grid charge was answered during an override to
\* AVOID_DISCHARGE: the demand follows the schedule, the mode does not
C9_Witness ==
    /\ last.override
    /\ last.reply \in ValidReplies
    /\ last.reply.body = Schedule(50, 1)
    /\ data.control.override_active
    /\ data.control.mode = "AVOID_DISCHARGE"
    /\ data.control.ac_charge_demand = FirstSlotDemand(last.reply.body)

\* C10: an override set with a duration ends by itself: when the poll cycle's
\* request left after override_end_time and is answered with a schedule,
\* override_active is false afterwards and control.mode is the mode derived
\* from the optimization result.
C10_OverrideExpires ==
    [][(/\ Returns(Poll)
        /\ last'.reply \in ValidReplies
        /\ data.control.override_active
        /\ data.control.override_end_time # None
        /\ request[Poll][1].sent > data.control.override_end_time[1]) =>
           /\ ~data'.control.override_active
           /\ data'.control.mode = DerivedMode(FirstSlotDemand(last'.reply.body),
                                               FirstSlotDischarge(last'.reply.body))]_vars


----------------------------------------------------------------------------
(* SpecEvcc: the coordinator with EVCC enabled.  The poll cycle, the        *)
(* 15-minute timer, the refinement switch and the select entity run on one  *)
(* event loop; the poll cycle is the only caller of the update cycle and is *)
(* taken in one step up to its EVCC request, and every task is suspended    *)
(* while its EVCC battery-mode request awaits the answer.  The clock moves  *)
(* in quarters of an hour.  The prices offered here are multiples of 840,   *)
(* so the mean of up to eight of them is an integer.                        *)

MaxQuarter == 2

\* two clock hours of quarter-hourly Tibber prices, each hour's mean 3360
QuarterPattern == <<1, 2, 5, 8, 3, 3, 3, 7>>
QuarterlyPrices ==
    EntityState(Some(840),
                [prices |-> [i \in 1..Len(QuarterPattern) |->
                                [from |-> Some(15 * (i - 1)),
                                 price |-> Some(840 * QuarterPattern[i])]]])

\* what the optimization server answers here
EvccReplies == ValidReplies \cup {[kind |-> "timeout", status |-> 0, body |-> <<>>]}

\* the modes the select entity is set to here
SelectedModes == {"AUTO", "CHARGE_FROM_GRID"}

EvccInit ==
    /\ data = InitialData
    /\ config = BaseConfig
    /\ hass = [BaseHass EXCEPT !.price = QuarterlyPrices]
    /\ now = 0
    /\ lock = None /\ waiters = <<>> /\ pc = IdleCallers /\ request = NoRequests
    /\ completed = FALSE /\ last = NoRun
    /\ \E refinement \in BOOLEAN : CoordinatorInit(TRUE, refinement)

\* the poll cycle, the cycle before it having returned
EvccCycle ==
    /\ evcc["poll"] = None
    /\ CycleFrom(data, savings, coord, ghost, EvccReplies)
    /\ completed' = TRUE
    /\ UNCHANGED <<config, hass, now, lock, waiters, pc, request, last>>

\* the interval timer started by async_set_15min_refinement calls
\* _async_15min_update; the callback before it has returned
TimerFires ==
    /\ coord.unsub /\ evcc["timer"] = None
    /\ Async15minUpdate("timer", coord, data, now)
    /\ UNCHANGED <<data, config, hass, now, lock, waiters, pc, request, completed, last,
                   savings>>

\* async_set_15min_refinement(True), the switch turned on: the timer is
\* started when it is not running and _async_15min_update is run at once
SwitchOn ==
    /\ evcc["switch"] = None
    /\ IF ~coord.unsub
       THEN Async15minUpdate("switch",
                             [coord EXCEPT !.refinement_15min_enabled = TRUE, !.unsub = TRUE],
                             data, now)
       ELSE /\ coord' = [coord EXCEPT !.refinement_15min_enabled = TRUE]
            /\ UNCHANGED <<evcc, ghost>>
    /\ UNCHANGED <<data, config, hass, now, lock, waiters, pc, request, completed, last,
                   savings>>

\* async_set_15min_refinement(False), the switch turned off
SwitchOff ==
    /\ coord' = [coord EXCEPT !.refinement_15min_enabled = FALSE, !.unsub = FALSE]
    /\ UNCHANGED <<data, config, hass, now, lock, waiters, pc, request, completed, last,
                   evcc, savings, ghost>>

\* async_set_evcc_battery_mode returns to task k, which is in
\* _set_evcc_mode_if_changed: EVCC answered 200 (ok), or it answered another
\* status, the request timed out or the connection failed.  Only a request
\* answered 200 sets _last_evcc_mode (and data.evcc.battery_mode, which is
\* not kept here), so last_evcc_mode is the mode of the last successful
\* request.
EvccAnswer(k, ok) ==
    /\ evcc[k] # None
    /\ evcc' = [evcc EXCEPT ![k] = None]
    /\ coord' = IF ok THEN [coord EXCEPT !.last_evcc_mode = evcc[k]] ELSE coord
    /\ UNCHANGED <<data, config, hass, now, lock, waiters, pc, request, completed, last,
                   savings, ghost>>

\* a quarter of an hour passes
QuarterTick ==
    /\ now < 15 * MaxQuarter
    /\ now' = now + 15
    /\ UNCHANGED <<data, config, hass, lock, waiters, pc, request, completed, last>>
    /\ UNCHANGED coordinator_vars

EvccNext ==
    \/ EvccCycle
    \/ TimerFires
    \/ SwitchOn
    \/ SwitchOff
    \/ \E k \in EvccTasks, ok \in BOOLEAN : EvccAnswer(k, ok)
    \/ \E mode \in SelectedModes : SetMode(mode)
    \/ QuarterTick

SpecEvcc == EvccInit /\ [][EvccNext]_vars

----------------------------------------------------------------------------
(* Claims about the EVCC battery mode *)

\* task k posts an EVCC battery-mode request in this step
Issues(k) == evcc[k] = None /\ evcc'[k] # None

\* C11: the two synchronisation paths never both drive the battery mode: the
\* hourly sync of the poll cycle posts a battery-mode request only while
\* 15-minute refinement is disabled, and _async_15min_update (run by the
\* timer or by the switch) posts one only while it is enabled.
C11_OnePathDrivesEvcc ==
    [][/\ Issues("poll") => ~coord'.refinement_15min_enabled
       /\ \A k \in {"timer", "switch"} : Issues(k) => coord'.refinement_15min_enabled]_vars

\* the hourly sync ran with refinement enabled and posted nothing, while a
\* request of the 15-minute timer is on its way
C11_Witness ==
    /\ ghost.sync.by = "poll" /\ ghost.sync.selected = "none"
    /\ coord.refinement_15min_enabled
    /\ evcc["timer"] # None /\ evcc["poll"] = None


\* the EVCC mode the hourly sync is to request for an EOS mode
ExpectedEvccMode(mode) ==
    CASE mode = "CHARGE_FROM_GRID" -> "charge"
      [] mode = "AVOID_DISCHARGE" -> "hold"
      [] mode \in {"AUTO", "STARTUP", "DISCHARGE_ALLOWED"} -> "normal"

\* C12: with EVCC enabled and 15-minute refinement disabled, the battery mode
\* requested at the end of an update cycle is a function of control.mode
\* alone: "charge" for CHARGE_FROM_GRID, "hold" for AVOID_DISCHARGE, "normal"
\* for AUTO, STARTUP and DISCHARGE_ALLOWED, control.mode being the mode the
\* cycle leaves.
C12_HourlyModeFromControlMode ==
    [][Issues("poll") /\ coord.evcc_enabled /\ ~coord.refinement_15min_enabled =>
          evcc'["poll"] = Some(ExpectedEvccMode(data'.control.mode))]_vars

\* a cycle whose schedule forbids discharge has posted "hold", refinement off
C12_Witness ==
    /\ ~coord.refinement_15min_enabled /\ ghost.sync.by = "poll"
    /\ data.control.mode = "AVOID_DISCHARGE"
    /\ evcc["poll"] = Some("hold")

\* the stored 15-minute prices of the clock hour of `now` and of its quarter
HourPrices == {data.prices_15min[i] :
                  i \in (4 * CurrentHour(now) + 1)..(4 * CurrentHour(now) + 4)}
SlotPrice == data.prices_15min[4 * CurrentHour(now) + (now % 60) \div 15 + 1]

\* task k runs the 15-minute sync in this step
Refines(k) == \/ k = "timer" /\ TimerFires
              \/ k = "switch" /\ SwitchOn /\ ~coord.unsub

\* C13: in 15-minute refinement with the EOS mode CHARGE_FROM_GRID, "charge"
\* is selected only in the cheapest 15-minute slot(s) of the current hour
\* (slot price equal to the minimum of the hour's four prices) and "hold" in
\* every other slot; with the EOS mode AVOID_DISCHARGE the selected mode is
\* always "hold".
C13_ChargeOnlyInCheapestSlot ==
    [][\A k \in {"timer", "switch"} :
          Refines(k) /\ ghost'.sync.by = k /\ ghost'.sync.selected # "none" =>
             /\ data.control.mode = "CHARGE_FROM_GRID" =>
                   ghost'.sync.selected =
                      IF SlotPrice = MinOf(HourPrices) THEN "charge" ELSE "hold"
             /\ data.control.mode = "AVOID_DISCHARGE" => ghost'.sync.selected = "hold"]_vars

\* C14: the EVCC battery mode is set only if it changed: no two consecutive
\* successful battery-mode requests carry the same mode, i.e. a request that
\* EVCC answers 200 never carries the mode of the last successful request.
C14_NoRepeatedEvccMode ==
    [][\A k \in EvccTasks : EvccAnswer(k, TRUE) => evcc[k] # coord.last_evcc_mode]_vars


----------------------------------------------------------------------------
(* SpecSavings: the savings tracker over poll cycles (EVCC off), with the   *)
(* battery and price sensors changing between cycles and the config entry   *)
(* reloaded.  The battery holds 10000 Wh, so 10 % of charge are 1000 Wh.    *)

MaxFlows == 3
MaxRestarts == 1

\* the sensor readings offered: state of charge in %, price in 1/1000 EUR/kWh
SocReadings == {40, 50, 60}
PriceReadings == {120, 300}

\* what the optimization server answers here: a schedule that charges from
\* the grid, one that allows discharge, or nothing before the timeout
SavingsReplies == {[kind |-> "http", status |-> 200, body |-> Schedule(50, 1)],
                   [kind |-> "http", status |-> 200, body |-> Schedule(0, 1)],
                   [kind |-> "timeout", status |-> 0, body |-> <<>>]}

SavingsInit ==
    /\ data = InitialData
    /\ config = BaseConfig
    /\ hass = BaseHass
    /\ now = 0
    /\ lock = None /\ waiters = <<>> /\ pc = IdleCallers /\ request = NoRequests
    /\ completed = FALSE /\ last = NoRun
    /\ CoordinatorInit(FALSE, FALSE)

\* the battery and price entities report new states
SensorsChange(soc, price) ==
    /\ hass' = [hass EXCEPT !.soc = EntityState(Some(soc), <<>>),
                            !.price = EntityState(Some(price), <<>>)]
    /\ UNCHANGED <<data, config, now, lock, waiters, pc, request, completed, last>>
    /\ UNCHANGED coordinator_vars

\* the poll cycle; no more than MaxFlows kWh are followed through the battery
SavingsCycle ==
    /\ savings.total_charged_kwh + savings.total_discharged_kwh < 1000 * MaxFlows
    /\ CycleFrom(data, savings, coord, ghost, SavingsReplies)
    /\ completed' = TRUE
    /\ UNCHANGED <<config, hass, now, lock, waiters, pc, request, last>>

\* async_reload_entry, or Home Assistant restarted: async_unload_entry drops
\* the coordinator, async_setup_entry builds EOSApiClient and the coordinator
\* anew and runs the first refresh
Restart ==
    /\ ghost.restarts < MaxRestarts
    /\ CycleFrom(InitialData, InitialSavings,
                 InitialCoordinator(coord.evcc_enabled, FALSE),
                 [ghost EXCEPT !.restarts = @ + 1], SavingsReplies)
    /\ completed' = TRUE
    /\ UNCHANGED <<config, hass, now, lock, waiters, pc, request, last>>

SavingsNext ==
    \/ \E soc \in SocReadings, price \in PriceReadings : SensorsChange(soc, price)
    \/ SavingsCycle
    \/ Restart

SpecSavings == SavingsInit /\ [][SavingsNext]_vars

----------------------------------------------------------------------------
(* Claims about the savings tracker *)

\* the config entry is set up again in this step
Restarts == ghost'.restarts # ghost.restarts

\* C15: total_savings_eur, the value of the total-increasing "Savings Total"
\* sensor, never decreases: after an update cycle, whatever the SOC readings
\* and prices, it is greater than or equal to its value before the cycle.
C15_TotalSavingsNeverDecrease ==
    [][~Restarts => savings'.total_savings_eur >= savings.total_savings_eur]_vars

\* the cumulative counters of a tracker
Cumulative(sv) ==
    <<sv.total_savings_eur, sv.total_grid_cost_eur, sv.total_charged_kwh,
      sv.total_discharged_kwh, sv.total_pv_charged_kwh, sv.total_grid_charged_kwh,
      sv.avg_charge_price>>

\* the counters of the running session
Session(sv) ==
    <<sv.session_savings_eur, sv.session_charged_kwh, sv.session_discharged_kwh,
      sv.session_pv_charged_kwh, sv.session_grid_charged_kwh>>

\* C16: the cumulative savings counters persist across a restart or a reload
\* of the config entry: once the entry is set up again they have the values
\* they had before it was unloaded, while the session counters restart at 0.
C16_TotalsPersistAcrossRestart ==
    [][Restarts => /\ Cumulative(savings') = Cumulative(savings)
                   /\ Session(savings') = <<0, 0, 0, 0, 0>>]_vars

\* the energy a cycle books as charged, in all, from the grid and from PV
ChargedBy(field) == savings'[field] - savings[field]

\* C17: energy charged into the battery between two consecutive update cycles
\* is booked by the later cycle to the grid counters, priced at the current
\* electricity price, exactly when the mode set by the earlier cycle (the mode
\* in force while the energy flowed) was CHARGE_FROM_GRID, and to the PV
\* counters otherwise.
C17_ChargeSourceByModeInForce ==
    [][~Restarts /\ ChargedBy("total_charged_kwh") > 0 =>
          IF data.control.mode = "CHARGE_FROM_GRID"
          THEN /\ ChargedBy("total_grid_charged_kwh") = ChargedBy("total_charged_kwh")
               /\ ChargedBy("total_pv_charged_kwh") = 0
               /\ ChargedBy("total_grid_cost_eur") =
                     ChargedBy("total_charged_kwh") * data'.prices[1]
          ELSE /\ ChargedBy("total_pv_charged_kwh") = ChargedBy("total_charged_kwh")
               /\ ChargedBy("total_grid_charged_kwh") = 0
               /\ ChargedBy("total_grid_cost_eur") = 0]_vars

====
